---- MODULE Spec2Model ----
(***************************************************************************)
(* A model of qjs.c, the stand-alone QuickJS interpreter front-end:        *)
(*   - the tracing allocator js_trace_malloc / js_trace_free /             *)
(*     js_trace_realloc over the platform allocator (SpecAlloc);           *)
(*   - main(): the option scanner and the runtime driver, with eval_file   *)
(*     and eval_buf (Spec).                                                *)
(* C strings are sequences of one-character strings; argv keeps the C      *)
(* indices through Argv(i).                                                *)
(***************************************************************************)
EXTENDS Integers, Sequences, FiniteSets, TLC

VARIABLES
    \* ---- struct JSMallocState and the platform heap under it
    malloc_count,   \* s->malloc_count
    malloc_size,    \* s->malloc_size
    malloc_limit,   \* s->malloc_limit
    heap,           \* the platform heap: live block address -> usable size
    last,           \* the last allocator call: arguments, result, what it did
    \* ---- main()
    argv,           \* the command line, argv[0] first
    optind,         \* the scanner's cursor
    arg,            \* char *arg: what is left of the token being scanned
    longopt,        \* const char *longopt
    cfg,            \* the option variables of main (expr, module, ...)
    role,           \* per argv index: how the scanner consumed the token
    pc,             \* where main is
    i,              \* the include loop's index
    rt,             \* the main JSRuntime and what was installed in it
    ctx,            \* the main JSContext
    script_args,    \* what js_std_add_helpers was given
    trace,          \* the calls made on the engine, in order
    failed,         \* main took `goto fail`
    exit_code       \* the process's exit status, -1 while it runs

allocVars == <<malloc_count, malloc_size, malloc_limit, heap, last>>

mainVars == <<argv, optind, arg, longopt, cfg, role, pc, i, rt, ctx,
              script_args, trace, failed, exit_code>>

vars == <<malloc_count, malloc_size, malloc_limit, heap, last,
          argv, optind, arg, longopt, cfg, role, pc, i, rt, ctx,
          script_args, trace, failed, exit_code>>

(***************************************************************************)
(* Bounds of the model.                                                    *)
(***************************************************************************)
\* width of size_t in bits; the arithmetic on sizes is modulo 2^SizeBits
SizeBits == 6
\* number of addresses the platform allocator can hand out
MaxBlocks == 2
\* how far malloc_usable_size may exceed the requested size
MaxSlack == 1

(***************************************************************************)
(* The tracing allocator.                                                  *)
(***************************************************************************)
MALLOC_OVERHEAD == 8

NULL == 0

SizeMod == 2 ^ SizeBits

SIZE_MAX == SizeMod - 1

\* size_t arithmetic
SizeAdd(a, b) == (a + b) % SizeMod

SizeSub(a, b) == (a + SizeMod - (b % SizeMod)) % SizeMod

Ptrs == 1 .. MaxBlocks

\* the request sizes of the model: small ones, and the largest size_t values
Sizes == {1, 8, 16, 24, SIZE_MAX - MALLOC_OVERHEAD, SIZE_MAX}

RECURSIVE SumOver(_, _)
SumOver(f, S) ==
    IF S = {} THEN 0
    ELSE LET p == CHOOSE q \in S : TRUE
         IN  f[p] + SumOver(f, S \ {p})

\* bytes of the address space the live blocks occupy, headers included
HeapBytes(h) == SumOver([p \in DOMAIN h |-> h[p] + MALLOC_OVERHEAD], DOMAIN h)

\* js_trace_malloc_usable_size(ptr), for a live block
js_trace_malloc_usable_size(ptr) == heap[ptr]

\* the sizes malloc_usable_size may report for a block obtained for `size` bytes
UsableFor(size) == { u \in size .. size + MaxSlack : u <= SIZE_MAX }

\* what fits in the address space beside the blocks of h
Fits(h, u) == HeapBytes(h) + u + MALLOC_OVERHEAD <= SIZE_MAX

NoCall == [op |-> "none", ptr |-> NULL, size |-> 0, ret |-> NULL,
           refused |-> FALSE, libc |-> FALSE]

Call(op, ptr, size, ret, refused, libc) ==
    [op |-> op, ptr |-> ptr, size |-> size, ret |-> ret,
     refused |-> refused, libc |-> libc]

\* the limit check of js_trace_malloc
MallocOverLimit(size) == SizeAdd(malloc_size, size) > malloc_limit

\* the limit check of js_trace_realloc
ReallocOverLimit(size, old_size) ==
    SizeSub(SizeAdd(malloc_size, size), old_size) > malloc_limit

\* the accounting of a block obtained by js_trace_malloc
MallocAccount(u) == SizeAdd(malloc_size, SizeAdd(u, MALLOC_OVERHEAD))

\* the accounting of a block released by js_trace_free or js_trace_realloc(ptr, 0)
FreeAccount(u) == SizeSub(malloc_size, SizeAdd(u, MALLOC_OVERHEAD))

\* a js_trace_realloc that forgets to take the old usable size off
ReallocAccountNoOld(u, old_size) == SizeAdd(malloc_size, u)

\* the accounting of a block resized by js_trace_realloc
ReallocAccount(u, old_size) == SizeAdd(malloc_size, SizeSub(u, old_size))

\* a js_trace_malloc that tests the limit after malloc() and drops the block
TraceMallocLate(op, ptr, size) ==
    \/ /\ last' = Call(op, ptr, size, NULL, MallocOverLimit(size), TRUE)
       /\ UNCHANGED <<malloc_count, malloc_size, malloc_limit, heap>>
    \/ \E p \in Ptrs \ DOMAIN heap : \E u \in UsableFor(size) :
          /\ Fits(heap, u)
          /\ heap' = [q \in DOMAIN heap \cup {p} |->
                         IF q = p THEN u ELSE heap[q]]
          /\ IF MallocOverLimit(size)
             THEN /\ last' = Call(op, ptr, size, NULL, TRUE, TRUE)
                  /\ UNCHANGED <<malloc_count, malloc_size>>
             ELSE /\ malloc_count' = malloc_count + 1
                  /\ malloc_size' = SizeAdd(malloc_size,
                                            SizeAdd(u, MALLOC_OVERHEAD))
                  /\ last' = Call(op, ptr, size, p, FALSE, TRUE)
          /\ UNCHANGED malloc_limit

\* js_trace_malloc(s, size), size != 0 (asserted); `op` names the entry point
TraceMalloc(op, ptr, size) ==
    IF MallocOverLimit(size)
    THEN /\ last' = Call(op, ptr, size, NULL, TRUE, FALSE)
         /\ UNCHANGED <<malloc_count, malloc_size, malloc_limit, heap>>
    ELSE \/ \* malloc(size) returns NULL
            /\ last' = Call(op, ptr, size, NULL, FALSE, TRUE)
            /\ UNCHANGED <<malloc_count, malloc_size, malloc_limit, heap>>
         \/ \* malloc(size) returns a fresh block
            \E p \in Ptrs \ DOMAIN heap : \E u \in UsableFor(size) :
               /\ Fits(heap, u)
               /\ heap' = [q \in DOMAIN heap \cup {p} |->
                              IF q = p THEN u ELSE heap[q]]
               /\ malloc_count' = malloc_count + 1
               /\ malloc_size' = MallocAccount(u)
               /\ last' = Call(op, ptr, size, p, FALSE, TRUE)
               /\ UNCHANGED malloc_limit

js_trace_malloc ==
    \E size \in Sizes : TraceMalloc("malloc", NULL, size)

\* js_trace_free(s, ptr): ptr is NULL or a live block
js_trace_free ==
    \E ptr \in {NULL} \cup DOMAIN heap :
       IF ptr = NULL
       THEN /\ last' = Call("free", NULL, 0, NULL, FALSE, FALSE)
            /\ UNCHANGED <<malloc_count, malloc_size, malloc_limit, heap>>
       ELSE /\ malloc_count' = malloc_count - 1
            /\ malloc_size' = FreeAccount(js_trace_malloc_usable_size(ptr))
            /\ heap' = [q \in DOMAIN heap \ {ptr} |-> heap[q]]
            /\ last' = Call("free", ptr, 0, NULL, FALSE, TRUE)
            /\ UNCHANGED malloc_limit

\* js_trace_realloc(s, NULL, size)
ReallocNull ==
    \E size \in {0} \cup Sizes :
       IF size = 0
       THEN /\ last' = Call("realloc", NULL, 0, NULL, FALSE, FALSE)
            /\ UNCHANGED <<malloc_count, malloc_size, malloc_limit, heap>>
       ELSE TraceMalloc("realloc", NULL, size)

\* a js_trace_realloc(s, ptr, 0) that leaves the header of the block counted
ReallocZeroNoOverhead ==
    \E ptr \in DOMAIN heap :
       LET old_size == js_trace_malloc_usable_size(ptr) IN
       /\ malloc_count' = malloc_count - 1
       /\ malloc_size' = SizeSub(malloc_size, old_size)
       /\ heap' = [q \in DOMAIN heap \ {ptr} |-> heap[q]]
       /\ last' = Call("realloc", ptr, 0, NULL, FALSE, TRUE)
       /\ UNCHANGED malloc_limit

\* js_trace_realloc(s, ptr, 0), ptr a live block
ReallocZero ==
    \E ptr \in DOMAIN heap :
       LET old_size == js_trace_malloc_usable_size(ptr) IN
       /\ malloc_count' = malloc_count - 1
       /\ malloc_size' = FreeAccount(old_size)
       /\ heap' = [q \in DOMAIN heap \ {ptr} |-> heap[q]]
       /\ last' = Call("realloc", ptr, 0, NULL, FALSE, TRUE)
       /\ UNCHANGED malloc_limit

\* js_trace_realloc(s, ptr, size), ptr a live block and size != 0
ReallocResize ==
    \E ptr \in DOMAIN heap : \E size \in Sizes :
       LET old_size == js_trace_malloc_usable_size(ptr)
           rest == [q \in DOMAIN heap \ {ptr} |-> heap[q]]
       IN
       IF ReallocOverLimit(size, old_size)
       THEN /\ last' = Call("realloc", ptr, size, NULL, TRUE, FALSE)
            /\ UNCHANGED <<malloc_count, malloc_size, malloc_limit, heap>>
       ELSE \/ \* realloc(ptr, size) returns NULL: the block stays as it was
               /\ last' = Call("realloc", ptr, size, NULL, FALSE, TRUE)
               /\ UNCHANGED <<malloc_count, malloc_size, malloc_limit, heap>>
            \/ \* realloc(ptr, size) resizes in place or moves the block
               \E p \in (Ptrs \ DOMAIN heap) \cup {ptr} :
               \E u \in UsableFor(size) :
                  /\ Fits(rest, u)
                  /\ heap' = [q \in DOMAIN rest \cup {p} |->
                                 IF q = p THEN u ELSE rest[q]]
                  /\ malloc_size' = ReallocAccount(u, old_size)
                  /\ last' = Call("realloc", ptr, size, p, FALSE, TRUE)
                  /\ UNCHANGED <<malloc_count, malloc_limit>>

js_trace_realloc == ReallocNull \/ ReallocZero \/ ReallocResize

\* the limits a runtime may carry: SIZE_MAX is the default (no limit)
Limits == {0, 16, 24, 40, SIZE_MAX}

AllocStart ==
    /\ malloc_count = 0
    /\ malloc_size = 0
    /\ heap = << >>
    /\ last = NoCall

(***************************************************************************)
(* C strings and the option variables of main.                             *)
(***************************************************************************)
\* the terminating '\0' of a C string, as *p reads it
NUL == ""

Argc == Len(argv)

\* argv[n], n counted from 0 as in C
Argv(n) == argv[n + 1]

\* a char * into argv: the token and the offset in it
Ptr(tok, off) == [tok |-> tok, off |-> off]

\* a pointer that points at nothing (NULL, or not yet assigned)
NoPtr == Ptr(-1, 0)

\* the C string a pointer into argv points at
Str(p) == SubSeq(Argv(p.tok), p.off + 1, Len(Argv(p.tok)))

\* has_suffix(str, suffix)
has_suffix(str, suffix) ==
    /\ Len(str) >= Len(suffix)
    /\ SubSeq(str, Len(str) - Len(suffix) + 1, Len(str)) = suffix

\* countof(include_list)
IncludeMax == 32

(***************************************************************************)
(* size_t as get_suffixed_size computes with it: SizeTBits bits, held as   *)
(* NLimbs limbs of LimbBits bits, least significant first.  The shifts of  *)
(* get_suffixed_size are whole limbs.                                      *)
(***************************************************************************)
\* the width of size_t where qjs is built with a 64-bit address space
SizeTBits == 64

LimbBits == 10

LimbBase == 2 ^ LimbBits

NLimbs == (SizeTBits + LimbBits - 1) \div LimbBits

\* what the most significant limb can hold: the bits of size_t left for it
TopBase == 2 ^ (SizeTBits - (NLimbs - 1) * LimbBits)

\* the value k < LimbBase
Wide(k) == [j \in 1 .. NLimbs |-> IF j = 1 THEN k ELSE 0]

SizeZero == Wide(0)

\* the conversion to size_t of a value of at most NLimbs limbs: the bits
\* above SizeTBits are lost
SizeT(w) ==
    [j \in 1 .. NLimbs |->
        IF j > Len(w) THEN 0
        ELSE IF j = NLimbs THEN w[j] % TopBase
        ELSE w[j]]

\* the limbs of w * 10 + carry from limb j on, exact (the most significant
\* limb takes what is carried)
RECURSIVE MulAddFrom(_, _, _)
MulAddFrom(w, j, carry) ==
    LET t == w[j] * 10 + carry IN
    IF j = NLimbs THEN <<t>>
    ELSE <<t % LimbBase>> \o MulAddFrom(w, j + 1, t \div LimbBase)

\* w * 10 + d
MulAdd10(w, d) == MulAddFrom(w, 1, d)

\* a size_t that wraps at 32 bits: v << n with the bits from 2^32 on lost
ShiftLeft32(v, n) ==
    LET k == n \div LimbBits IN
    [j \in 1 .. NLimbs |->
        IF j <= k \/ j > 4 THEN 0
        ELSE IF j = 4 THEN v[j - k] % 4
        ELSE v[j - k]]

\* v <<= n on a size_t, n a multiple of LimbBits: the bits shifted out of
\* SizeTBits are lost
ShiftLeft(v, n) ==
    LET k == n \div LimbBits IN
    SizeT([j \in 1 .. NLimbs |-> IF j <= k THEN 0 ELSE v[j - k]])

(***************************************************************************)
(* get_suffixed_size: strtod on a decimal number with an optional          *)
(* fraction, truncated by the cast to size_t, then the suffix.  The texts  *)
(* of the model carry no sign, exponent, hexadecimal prefix, "inf" or      *)
(* "nan" and at most ten digits, so the double strtod returns is the exact *)
(* value of the digits.                                                    *)
(***************************************************************************)
Digits == {"0", "1", "2", "3", "4", "5", "6", "7", "8", "9"}

DigitVal(c) ==
    CASE c = "0" -> 0 [] c = "1" -> 1 [] c = "2" -> 2 [] c = "3" -> 3
      [] c = "4" -> 4 [] c = "5" -> 5 [] c = "6" -> 6 [] c = "7" -> 7
      [] c = "8" -> 8 [] c = "9" -> 9

\* the number of leading decimal digits of str
RECURSIVE DigitRun(_)
DigitRun(str) ==
    IF str # << >> /\ Head(str) \in Digits THEN 1 + DigitRun(Tail(str)) ELSE 0

\* the value of a string of decimal digits
RECURSIVE DecValue(_, _)
DecValue(str, acc) ==
    IF str = << >> THEN acc
    ELSE DecValue(Tail(str), MulAdd10(acc, DigitVal(Head(str))))

\* (size_t)strtod(str, &p) for  digits [ "." digits ] : the value and what p
\* is left pointing at; with no digit at all nothing is converted
strtod(str) ==
    LET n == DigitRun(str)
        afterInt == SubSeq(str, n + 1, Len(str))
        hasDot == afterInt # << >> /\ Head(afterInt) = "."
        m == IF hasDot THEN DigitRun(Tail(afterInt)) ELSE 0
    IN  IF n = 0 /\ m = 0
        THEN [v |-> SizeZero, p |-> str]
        ELSE [v |-> SizeT(DecValue(SubSeq(str, 1, n), SizeZero)),
              p |-> IF hasDot THEN SubSeq(afterInt, m + 2, Len(afterInt))
                    ELSE afterInt]

\* the shift the suffix character *p selects; -1: "invalid suffix", exit(1)
SuffixShift(c) ==
    IF c = "G" THEN 30
    ELSE IF c = "M" THEN 20
    ELSE IF c = "k" \/ c = "K" THEN 10
    ELSE IF c # NUL THEN -1
    ELSE 0

\* get_suffixed_size(str): fatal (the process exits 1) or the size
get_suffixed_size(str) ==
    LET r == strtod(str)
        c == IF r.p = << >> THEN NUL ELSE Head(r.p)
        sh == SuffixShift(c)
    IN  IF sh < 0 THEN [fatal |-> TRUE, v |-> SizeZero]
        ELSE [fatal |-> FALSE, v |-> ShiftLeft(r.v, sh)]

\* the option variables of main as declared
CfgInit ==
    [expr |-> NoPtr, interactive |-> 0, dump_memory |-> 0,
     trace_memory |-> 0, empty_run |-> 0, module |-> -1, load_std |-> 0,
     dump_unhandled_promise_rejection |-> 1, memory_limit |-> SizeZero,
     include_list |-> << >>, include_count |-> 0,
     strip_flags |-> "0", stack_size |-> SizeZero]

(***************************************************************************)
(* main: the option scanner (the while loop and the for loop in it).       *)
(***************************************************************************)
Set(f, v) == cfg' = [cfg EXCEPT ![f] = v]

Consumed(n, how) == role' = [role EXCEPT ![n] = how]

\* exit(code), and return code from main
Exit(code) == pc' = "exited" /\ exit_code' = code

engineVars == <<rt, ctx, script_args, trace, failed, i>>

\* while (optind < argc && *argv[optind] == '-') is false
ScanStop ==
    /\ pc = "scan"
    /\ ~(optind < Argc /\ Argv(optind) # << >> /\ Head(Argv(optind)) = "-")
    /\ pc' = "new_runtime"
    /\ UNCHANGED <<optind, arg, longopt, cfg, role, exit_code>>
    /\ UNCHANGED <<argv, allocVars, engineVars>>

\* a single - is not an option, it also stops argument scanning
ScanBareDash ==
    /\ pc = "scan"
    /\ optind < Argc /\ Argv(optind) = <<"-">>
    /\ pc' = "new_runtime"
    /\ UNCHANGED <<optind, arg, longopt, cfg, role, exit_code>>
    /\ UNCHANGED <<argv, allocVars, engineVars>>

\* a scanner that stops at -- without consuming it
ScanDashDashKept ==
    /\ pc = "scan"
    /\ optind < Argc /\ Argv(optind) = <<"-", "-">>
    /\ pc' = "new_runtime"
    /\ UNCHANGED <<optind, arg, longopt, cfg, role, exit_code>>
    /\ UNCHANGED <<argv, allocVars, engineVars>>

\* -- stops argument scanning
ScanDashDash ==
    /\ pc = "scan"
    /\ optind < Argc /\ Argv(optind) = <<"-", "-">>
    /\ optind' = optind + 1
    /\ Consumed(optind, "end")
    /\ pc' = "new_runtime"
    /\ UNCHANGED <<arg, longopt, cfg, exit_code>>
    /\ UNCHANGED <<argv, allocVars, engineVars>>

\* the token is taken as an option: short letters in arg, or a long name
ScanOption ==
    /\ pc = "scan"
    /\ optind < Argc
    /\ LET tok == Argv(optind) IN
       /\ Len(tok) >= 2 /\ tok[1] = "-" /\ tok # <<"-", "-">>
       /\ optind' = optind + 1
       /\ Consumed(optind, "option")
       /\ IF tok[2] = "-"
          THEN /\ longopt' = SubSeq(tok, 3, Len(tok))
               /\ arg' = Ptr(optind, Len(tok))
          ELSE /\ longopt' = << >>
               /\ arg' = Ptr(optind, 1)
    /\ pc' = "option"
    /\ UNCHANGED <<cfg, exit_code>>
    /\ UNCHANGED <<argv, allocVars, engineVars>>

\* the for loop's condition *arg || *longopt
InFor == pc = "option" /\ (Str(arg) # << >> \/ longopt # << >>)

\* char opt = *arg
Opt == IF Str(arg) # << >> THEN Head(Str(arg)) ELSE NUL

\* if (opt) arg++
ArgNext == IF Opt # NUL THEN Ptr(arg.tok, arg.off + 1) ELSE arg

\* the first test of the for body that holds
Matched ==
    IF Opt = "h" \/ Opt = "?" \/ longopt = <<"h", "e", "l", "p">> THEN "help"
    ELSE IF Opt = "e" \/ longopt = <<"e", "v", "a", "l">> THEN "eval"
    ELSE IF Opt = "I" \/ longopt = <<"i", "n", "c", "l", "u", "d", "e">> THEN "include"
    ELSE IF Opt = "i" \/ longopt = <<"i", "n", "t", "e", "r", "a", "c", "t", "i", "v", "e">> THEN "interactive"
    ELSE IF Opt = "m" \/ longopt = <<"m", "o", "d", "u", "l", "e">> THEN "module"
    ELSE IF longopt = <<"s", "c", "r", "i", "p", "t">> THEN "script"
    ELSE IF Opt = "d" \/ longopt = <<"d", "u", "m", "p">> THEN "dump"
    ELSE IF Opt = "T" \/ longopt = <<"t", "r", "a", "c", "e">> THEN "trace"
    ELSE IF longopt = <<"s", "t", "d">> THEN "std"
    ELSE IF longopt = <<"n", "o", "-", "u", "n", "h", "a", "n", "d", "l", "e", "d", "-", "r", "e", "j", "e", "c", "t", "i", "o", "n">>
         THEN "no-unhandled-rejection"
    ELSE IF Opt = "q" \/ longopt = <<"q", "u", "i", "t">> THEN "quit"
    ELSE IF longopt = <<"m", "e", "m", "o", "r", "y", "-", "l", "i", "m", "i", "t">> THEN "memory-limit"
    ELSE IF longopt = <<"s", "t", "a", "c", "k", "-", "s", "i", "z", "e">> THEN "stack-size"
    ELSE IF Opt = "s" THEN "s"
    ELSE IF longopt = <<"s", "t", "r", "i", "p", "-", "s", "o", "u", "r", "c", "e">> THEN "strip-source"
    ELSE "unknown"

\* continue: the for loop's step longopt = ""
Continue == arg' = ArgNext /\ longopt' = << >> /\ pc' = "option"

\* break out of the for loop, back to the while loop
Break == arg' = NoPtr /\ longopt' = << >> /\ pc' = "scan"

\* the for loop ends: neither a letter nor a long name is left
ForEnd ==
    /\ pc = "option" /\ ~InFor
    /\ Break
    /\ UNCHANGED <<optind, cfg, role, exit_code>>
    /\ UNCHANGED <<argv, allocVars, engineVars>>

\* help(): prints the usage and exits 1
OptHelp ==
    /\ InFor /\ Matched = "help"
    /\ Exit(1)
    /\ arg' = ArgNext
    /\ UNCHANGED <<optind, longopt, cfg, role>>
    /\ UNCHANGED <<argv, allocVars, engineVars>>

\* an -e that takes the next token even when letters follow it in its own
OptEvalNextOnly ==
    /\ InFor /\ Matched = "eval"
    /\ IF optind < Argc
       THEN /\ Set("expr", Ptr(optind, 0))
            /\ optind' = optind + 1
            /\ Consumed(optind, "argument")
            /\ Break
            /\ UNCHANGED exit_code
       ELSE /\ Exit(2)
            /\ arg' = ArgNext
            /\ UNCHANGED <<optind, longopt, cfg, role>>
    /\ UNCHANGED <<argv, allocVars, engineVars>>

\* -e, --eval: the rest of the token, or the next token, is the expression
OptEval ==
    /\ InFor /\ Matched = "eval"
    /\ IF Str(ArgNext) # << >>
       THEN /\ Set("expr", ArgNext)
            /\ Break
            /\ UNCHANGED <<optind, role, exit_code>>
       ELSE IF optind < Argc
       THEN /\ Set("expr", Ptr(optind, 0))
            /\ optind' = optind + 1
            /\ Consumed(optind, "argument")
            /\ Break
            /\ UNCHANGED exit_code
       ELSE /\ Exit(2)
            /\ arg' = ArgNext
            /\ UNCHANGED <<optind, longopt, cfg, role>>
    /\ UNCHANGED <<argv, allocVars, engineVars>>

\* an include list filled from the front
IncludeStoreFront ==
    /\ cfg' = [cfg EXCEPT !.include_list = <<optind>> \o @,
                          !.include_count = @ + 1]
    /\ optind' = optind + 1
    /\ Consumed(optind, "argument")

\* include_list[include_count++] = argv[optind++]
IncludeStore ==
    /\ cfg' = [cfg EXCEPT !.include_list = Append(@, optind),
                          !.include_count = @ + 1]
    /\ optind' = optind + 1
    /\ Consumed(optind, "argument")

\* -I without the test of include_count against countof(include_list)
OptIncludeUnchecked ==
    /\ InFor /\ Matched = "include"
    /\ IF optind >= Argc
       THEN /\ Exit(1)
            /\ arg' = ArgNext
            /\ UNCHANGED <<optind, longopt, cfg, role>>
       ELSE /\ IncludeStore
            /\ Continue
            /\ UNCHANGED exit_code
    /\ UNCHANGED <<argv, allocVars, engineVars>>

\* -I, --include
OptInclude ==
    /\ InFor /\ Matched = "include"
    /\ IF optind >= Argc \/ cfg.include_count >= IncludeMax
       THEN /\ Exit(1)
            /\ arg' = ArgNext
            /\ UNCHANGED <<optind, longopt, cfg, role>>
       ELSE /\ IncludeStore
            /\ Continue
            /\ UNCHANGED exit_code
    /\ UNCHANGED <<argv, allocVars, engineVars>>

\* the options that only set or count a flag
Flag(f, v) ==
    /\ Set(f, v)
    /\ Continue
    /\ UNCHANGED <<optind, role, exit_code>>
    /\ UNCHANGED <<argv, allocVars, engineVars>>

OptInteractive ==
    /\ InFor /\ Matched = "interactive"
    /\ Flag("interactive", cfg.interactive + 1)

\* the value -m, --module gives `module`
ModuleOn == 1

\* the value --script gives `module`
ModuleOff == 0

OptModule ==
    /\ InFor /\ Matched = "module"
    /\ Flag("module", ModuleOn)

OptScript ==
    /\ InFor /\ Matched = "script"
    /\ Flag("module", ModuleOff)

OptDump ==
    /\ InFor /\ Matched = "dump"
    /\ Flag("dump_memory", cfg.dump_memory + 1)

OptTrace ==
    /\ InFor /\ Matched = "trace"
    /\ Flag("trace_memory", cfg.trace_memory + 1)

OptStd ==
    /\ InFor /\ Matched = "std"
    /\ Flag("load_std", 1)

OptNoUnhandledRejection ==
    /\ InFor /\ Matched = "no-unhandled-rejection"
    /\ Flag("dump_unhandled_promise_rejection", 0)

OptQuit ==
    /\ InFor /\ Matched = "quit"
    /\ Flag("empty_run", cfg.empty_run + 1)

OptStrip ==
    /\ InFor /\ Matched = "s"
    /\ Flag("strip_flags", "JS_STRIP_DEBUG")

OptStripSource ==
    /\ InFor /\ Matched = "strip-source"
    /\ Flag("strip_flags", "JS_STRIP_SOURCE")

\* a size option that takes its argument without looking for the end of argv
SizeOptionUnchecked(f) ==
    /\ optind' = optind + 1
    /\ Consumed(optind, "argument")
    /\ Set(f, IF optind < Argc THEN get_suffixed_size(Argv(optind)).v
              ELSE SizeZero)
    /\ Continue
    /\ UNCHANGED exit_code
    /\ UNCHANGED <<argv, allocVars, engineVars>>

\* --memory-limit, --stack-size: the next token through get_suffixed_size
SizeOption(f) ==
    /\ IF optind >= Argc
       THEN /\ Exit(1)
            /\ arg' = ArgNext
            /\ UNCHANGED <<optind, longopt, cfg, role>>
       ELSE LET r == get_suffixed_size(Argv(optind)) IN
            /\ optind' = optind + 1
            /\ Consumed(optind, "argument")
            /\ IF r.fatal
               THEN /\ Exit(1)
                    /\ arg' = ArgNext
                    /\ UNCHANGED <<longopt, cfg>>
               ELSE /\ Set(f, r.v)
                    /\ Continue
                    /\ UNCHANGED exit_code
    /\ UNCHANGED <<argv, allocVars, engineVars>>

OptMemoryLimit ==
    /\ InFor /\ Matched = "memory-limit"
    /\ SizeOption("memory_limit")

OptStackSize ==
    /\ InFor /\ Matched = "stack-size"
    /\ SizeOption("stack_size")

\* unknown option: the diagnostic, then help()
OptUnknown ==
    /\ InFor /\ Matched = "unknown"
    /\ Exit(1)
    /\ arg' = ArgNext
    /\ UNCHANGED <<optind, longopt, cfg, role>>
    /\ UNCHANGED <<argv, allocVars, engineVars>>

Scanner ==
    \/ ScanStop \/ ScanBareDash \/ ScanDashDash \/ ScanOption \/ ForEnd
    \/ OptHelp \/ OptEval \/ OptInclude \/ OptInteractive \/ OptModule
    \/ OptScript \/ OptDump \/ OptTrace \/ OptStd \/ OptNoUnhandledRejection
    \/ OptQuit \/ OptMemoryLimit \/ OptStackSize \/ OptStrip
    \/ OptStripSource \/ OptUnknown

(***************************************************************************)
(* eval_buf and eval_file.                                                 *)
(***************************************************************************)
\* one call made on the engine: what was evaluated (name, and src when the
\* text comes from argv), with which flags, the engine calls eval_buf made in
\* order, and the value returned
Event(op, name, src, flags, steps, ret) ==
    [op |-> op, name |-> name, src |-> src, flags |-> flags,
     steps |-> steps, ret |-> ret]

Call0(op) == Event(op, "", NoPtr, "", << >>, 0)

\* what the engine may answer to an evaluation: the compile step (or the
\* script) throws, JS_EvalFunction throws, the awaited promise is rejected,
\* or nothing throws
Outcomes(flags) ==
    IF flags = "JS_EVAL_TYPE_MODULE"
    THEN {"ok", "compile_exception", "run_exception", "await_exception"}
    ELSE {"ok", "compile_exception"}

\* one engine call of eval_buf and what it left in val ("" for a call that
\* returns nothing into val)
Step(call, val) == [call |-> call, val |-> val]

\* the JSValue an engine call returns
Val(exception) == IF exception THEN "JS_EXCEPTION" ELSE "value"

\* an eval_buf that stamps and runs the module whatever the compile step gave
EvalStepsNoTest(flags, outcome) ==
    IF flags = "JS_EVAL_TYPE_MODULE"
    THEN <<Step("JS_Eval(COMPILE_ONLY)", Val(outcome = "compile_exception")),
           Step("js_module_set_import_meta(TRUE, TRUE)", ""),
           Step("JS_EvalFunction",
                Val(outcome \in {"compile_exception", "run_exception"})),
           Step("js_std_await", Val(outcome # "ok"))>>
    ELSE <<Step("JS_Eval", Val(outcome # "ok"))>>

\* the engine calls of eval_buf up to the test of the final value
EvalSteps(flags, outcome) ==
    IF flags = "JS_EVAL_TYPE_MODULE"
    THEN <<Step("JS_Eval(COMPILE_ONLY)", Val(outcome = "compile_exception"))>>
         \o (IF outcome # "compile_exception"
             THEN <<Step("js_module_set_import_meta(TRUE, TRUE)", ""),
                    Step("JS_EvalFunction", Val(outcome = "run_exception"))>>
             ELSE << >>)
         \o <<Step("js_std_await", Val(outcome # "ok"))>>
    ELSE <<Step("JS_Eval", Val(outcome # "ok"))>>

\* eval_buf(ctx, buf, buf_len, filename, eval_flags)
eval_buf(flags, outcome) ==
    LET steps == EvalSteps(flags, outcome)
        val == steps[Len(steps)].val
        exception == val = "JS_EXCEPTION"
    IN  [steps |-> steps
                   \o (IF exception THEN <<Step("js_std_dump_error", "")>>
                       ELSE << >>)
                   \o <<Step("JS_FreeValue", val)>>,
         ret |-> IF exception THEN -1 ELSE 0]

\* the files whose text JS_DetectModule takes for a module
ModuleSources == {<<"m">>}

JS_DetectModule(filename) == filename \in ModuleSources

\* an eval_file that lets the .mjs suffix win over --script
EvalFlagsSuffixFirst(filename, module) ==
    IF has_suffix(filename, <<".", "m", "j", "s">>) \/ module > 0
          \/ (module < 0 /\ JS_DetectModule(filename))
    THEN "JS_EVAL_TYPE_MODULE"
    ELSE "JS_EVAL_TYPE_GLOBAL"

\* eval_file's choice of the evaluation mode
EvalFlags(filename, module) ==
    LET m == IF module < 0
             THEN has_suffix(filename, <<".", "m", "j", "s">>) \/ JS_DetectModule(filename)
             ELSE module # 0
    IN  IF m THEN "JS_EVAL_TYPE_MODULE" ELSE "JS_EVAL_TYPE_GLOBAL"

\* goto fail
GotoFail == failed' = TRUE /\ pc' = "free_handlers" /\ UNCHANGED exit_code

\* eval_file(ctx, argv[n], module) in main: exit(1) when the file cannot be
\* loaded, `goto fail` when the evaluation fails, `go` otherwise
EvalFile(n, go) ==
    \/ /\ trace' = Append(trace, Event("js_load_file", "file", Ptr(n, 0),
                                       "", << >>, -1))
       /\ Exit(1)
       /\ UNCHANGED <<failed, i>>
    \/ LET flags == EvalFlags(Argv(n), cfg.module) IN
       \E outcome \in Outcomes(flags) :
          LET r == eval_buf(flags, outcome) IN
          /\ trace' = Append(trace, Event("eval_file", "file", Ptr(n, 0),
                                          flags, r.steps, r.ret))
          /\ IF r.ret # 0
             THEN GotoFail /\ UNCHANGED i
             ELSE go /\ UNCHANGED <<failed, exit_code>>

(***************************************************************************)
(* main: the runtime driver.                                               *)
(***************************************************************************)
NoRuntime ==
    [state |-> "none", malloc |-> "", memory_limit |-> SizeZero,
     stack_size |-> SizeZero,
     strip |-> "0", handlers |-> FALSE, loader |-> FALSE, tracker |-> FALSE,
     drained |-> FALSE, frees |-> 0]

\* js_std_loop(ctx): runs the pending jobs until the queue is quiescent
js_std_loop(r) == [r EXCEPT !.drained = TRUE]

\* js_std_free_handlers(rt): releases the standard handlers, the job queue
\* being drained on the way
js_std_free_handlers(r) == [r EXCEPT !.handlers = FALSE, !.drained = TRUE]

NoContext == [state |-> "none", frees |-> 0]

NoScriptArgs == [set |-> FALSE, argc |-> 0, argv |-> << >>]

scanVars == <<optind, arg, longopt, cfg, role>>

\* JS_NewRuntime2(&trace_mf, ..) or JS_NewRuntime(), then the settings and
\* js_std_init_handlers; exit(2) when no runtime can be allocated
NewRuntime ==
    /\ pc = "new_runtime"
    /\ \/ Exit(2) /\ UNCHANGED rt
       \/ /\ rt' = [state |-> "live",
                    malloc |-> IF cfg.trace_memory # 0 THEN "trace_mf"
                               ELSE "default",
                    memory_limit |-> cfg.memory_limit,
                    stack_size |-> cfg.stack_size,
                    strip |-> cfg.strip_flags,
                    handlers |-> TRUE, loader |-> FALSE, tracker |-> FALSE,
                    drained |-> FALSE, frees |-> 0]
          /\ pc' = "new_context"
          /\ UNCHANGED exit_code
    /\ UNCHANGED <<ctx, script_args, trace, failed, i>>
    /\ UNCHANGED <<argv, allocVars, scanVars>>

\* JS_NewCustomContext(rt); exit(2) when no context can be allocated
NewContext ==
    /\ pc = "new_context"
    /\ \/ Exit(2) /\ UNCHANGED ctx
       \/ /\ ctx' = [state |-> "live", frees |-> 0]
          /\ pc' = "hooks"
          /\ UNCHANGED exit_code
    /\ UNCHANGED <<rt, script_args, trace, failed, i>>
    /\ UNCHANGED <<argv, allocVars, scanVars>>

\* a main that runs the user code of an empty run as well
HooksNoQuit ==
    /\ pc = "hooks"
    /\ rt' = [rt EXCEPT !.loader = TRUE,
                        !.tracker = cfg.dump_unhandled_promise_rejection # 0]
    /\ pc' = "helpers"
    /\ UNCHANGED <<ctx, script_args, trace, failed, i, exit_code>>
    /\ UNCHANGED <<argv, allocVars, scanVars>>

\* the module loader, and the rejection tracker unless it was switched off
Hooks ==
    /\ pc = "hooks"
    /\ rt' = [rt EXCEPT !.loader = TRUE,
                        !.tracker = cfg.dump_unhandled_promise_rejection # 0]
    /\ pc' = IF cfg.empty_run # 0 THEN "dump" ELSE "helpers"
    /\ UNCHANGED <<ctx, script_args, trace, failed, i, exit_code>>
    /\ UNCHANGED <<argv, allocVars, scanVars>>

\* the n tokens of argv from argv + base on
ArgvFrom(n, base) == [k \in 1 .. n |-> Argv(base + k - 1)]

\* js_std_add_helpers(ctx, argc - optind, argv + optind)
AddHelpers ==
    /\ pc = "helpers"
    /\ script_args' = [set |-> TRUE, argc |-> Argc - optind,
                       argv |-> ArgvFrom(Argc - optind, optind)]
    /\ trace' = Append(trace, Call0("js_std_add_helpers"))
    /\ pc' = "std"
    /\ UNCHANGED <<rt, ctx, failed, i, exit_code>>
    /\ UNCHANGED <<argv, allocVars, scanVars>>

\* if (load_std) eval_buf(ctx, str, strlen(str), "<input>", JS_EVAL_TYPE_MODULE)
LoadStd ==
    /\ pc = "std"
    /\ IF cfg.load_std # 0
       THEN \E outcome \in Outcomes("JS_EVAL_TYPE_MODULE") :
               LET r == eval_buf("JS_EVAL_TYPE_MODULE", outcome) IN
               trace' = Append(trace, Event("eval_buf", "<input>", NoPtr,
                                  "JS_EVAL_TYPE_MODULE", r.steps, r.ret))
       ELSE UNCHANGED trace
    /\ i' = 0
    /\ pc' = "include"
    /\ UNCHANGED <<rt, ctx, script_args, failed, exit_code>>
    /\ UNCHANGED <<argv, allocVars, scanVars>>

\* one turn of the include loop: eval_file(ctx, include_list[i], module)
Include ==
    /\ pc = "include"
    /\ i < cfg.include_count
    /\ EvalFile(cfg.include_list[i + 1], i' = i + 1 /\ pc' = "include")
    /\ UNCHANGED <<rt, ctx, script_args>>
    /\ UNCHANGED <<argv, allocVars, scanVars>>

\* the include loop ends
IncludeEnd ==
    /\ pc = "include"
    /\ ~(i < cfg.include_count)
    /\ pc' = "main"
    /\ UNCHANGED <<rt, ctx, script_args, trace, failed, i, exit_code>>
    /\ UNCHANGED <<argv, allocVars, scanVars>>

\* if (expr) eval_buf(ctx, expr, strlen(expr), "<cmdline>", 0)
MainExpr ==
    /\ pc = "main"
    /\ cfg.expr # NoPtr
    /\ \E outcome \in Outcomes("JS_EVAL_TYPE_GLOBAL") :
          LET r == eval_buf("JS_EVAL_TYPE_GLOBAL", outcome) IN
          /\ trace' = Append(trace, Event("eval_buf", "<cmdline>", cfg.expr,
                                 "JS_EVAL_TYPE_GLOBAL", r.steps, r.ret))
          /\ IF r.ret # 0
             THEN GotoFail
             ELSE pc' = "interactive" /\ UNCHANGED <<failed, exit_code>>
    /\ UNCHANGED <<rt, ctx, script_args, i>>
    /\ UNCHANGED <<argv, allocVars, scanVars>>

\* else if (optind >= argc) interactive = 1
MainInteractive ==
    /\ pc = "main"
    /\ cfg.expr = NoPtr
    /\ optind >= Argc
    /\ Set("interactive", 1)
    /\ pc' = "interactive"
    /\ UNCHANGED <<rt, ctx, script_args, trace, failed, i, exit_code>>
    /\ UNCHANGED <<argv, allocVars, optind, arg, longopt, role>>

\* a main that may load the script file although an expression was given
MainFileAlso ==
    /\ pc = "main"
    /\ ~(optind >= Argc)
    /\ EvalFile(optind, pc' = "interactive" /\ UNCHANGED i)
    /\ UNCHANGED <<rt, ctx, script_args>>
    /\ UNCHANGED <<argv, allocVars, scanVars>>

\* else eval_file(ctx, argv[optind], module)
MainFile ==
    /\ pc = "main"
    /\ cfg.expr = NoPtr
    /\ ~(optind >= Argc)
    /\ EvalFile(optind, pc' = "interactive" /\ UNCHANGED i)
    /\ UNCHANGED <<rt, ctx, script_args>>
    /\ UNCHANGED <<argv, allocVars, scanVars>>

\* an interactive mode that leaves the rejection tracker installed
InteractiveTracked ==
    /\ pc = "interactive"
    /\ pc' = IF cfg.interactive # 0 THEN "repl" ELSE "loop"
    /\ UNCHANGED <<rt, ctx, script_args, trace, failed, i, exit_code>>
    /\ UNCHANGED <<argv, allocVars, optind, arg, longopt, cfg, role>>

\* if (interactive) JS_SetHostPromiseRejectionTracker(rt, NULL, NULL)
Interactive ==
    /\ pc = "interactive"
    /\ IF cfg.interactive # 0
       THEN /\ rt' = [rt EXCEPT !.tracker = FALSE]
            /\ pc' = "repl"
       ELSE /\ UNCHANGED rt
            /\ pc' = "loop"
    /\ UNCHANGED <<ctx, script_args, trace, failed, i, exit_code>>
    /\ UNCHANGED <<argv, allocVars, scanVars>>

\* js_std_eval_binary(ctx, qjsc_repl, qjsc_repl_size, 0): the REPL blob
Repl ==
    /\ pc = "repl"
    /\ trace' = Append(trace, Call0("js_std_eval_binary"))
    /\ pc' = "loop"
    /\ UNCHANGED <<rt, ctx, script_args, failed, i, exit_code>>
    /\ UNCHANGED <<argv, allocVars, scanVars>>

\* a main that goes to the memory dump without running the pending jobs
LoopSkipped ==
    /\ pc = "loop"
    /\ pc' = "dump"
    /\ UNCHANGED <<rt, ctx, script_args, trace, failed, i, exit_code>>
    /\ UNCHANGED <<argv, allocVars, optind, arg, longopt, cfg, role>>

\* js_std_loop(ctx)
Loop ==
    /\ pc = "loop"
    /\ rt' = js_std_loop(rt)
    /\ trace' = Append(trace, Call0("js_std_loop"))
    /\ pc' = "dump"
    /\ UNCHANGED <<ctx, script_args, failed, i, exit_code>>
    /\ UNCHANGED <<argv, allocVars, scanVars>>

\* if (dump_memory) JS_ComputeMemoryUsage, JS_DumpMemoryUsage
DumpMemory ==
    /\ pc = "dump"
    /\ IF cfg.dump_memory # 0
       THEN trace' = Append(trace, Call0("JS_DumpMemoryUsage"))
       ELSE UNCHANGED trace
    /\ pc' = "free_handlers"
    /\ UNCHANGED <<rt, ctx, script_args, failed, i, exit_code>>
    /\ UNCHANGED <<argv, allocVars, scanVars>>

\* js_std_free_handlers(rt), on the normal path and after `fail:`
FreeHandlers ==
    /\ pc = "free_handlers"
    /\ rt' = js_std_free_handlers(rt)
    /\ trace' = Append(trace, Call0("js_std_free_handlers"))
    /\ pc' = "free_context"
    /\ UNCHANGED <<ctx, script_args, failed, i, exit_code>>
    /\ UNCHANGED <<argv, allocVars, scanVars>>

\* a teardown that leaves the context alive
FreeContextSkipped ==
    /\ pc = "free_context"
    /\ pc' = "free_runtime"
    /\ UNCHANGED <<rt, ctx, script_args, trace, failed, i, exit_code>>
    /\ UNCHANGED <<argv, allocVars, optind, arg, longopt, cfg, role>>

\* JS_FreeContext(ctx)
FreeContext ==
    /\ pc = "free_context"
    /\ ctx' = [state |-> "freed", frees |-> ctx.frees + 1]
    /\ trace' = Append(trace, Call0("JS_FreeContext"))
    /\ pc' = "free_runtime"
    /\ UNCHANGED <<rt, script_args, failed, i, exit_code>>
    /\ UNCHANGED <<argv, allocVars, scanVars>>

\* JS_FreeRuntime(rt), then return 1 after `fail:`, else the benchmark or
\* return 0
FreeRuntime ==
    /\ pc = "free_runtime"
    /\ rt' = [rt EXCEPT !.state = "freed", !.frees = @ + 1]
    /\ trace' = Append(trace, Call0("JS_FreeRuntime"))
    /\ IF failed THEN Exit(1)
       ELSE IF cfg.empty_run # 0 /\ cfg.dump_memory # 0
       THEN pc' = "benchmark" /\ UNCHANGED exit_code
       ELSE Exit(0)
    /\ UNCHANGED <<ctx, script_args, failed, i>>
    /\ UNCHANGED <<argv, allocVars, scanVars>>

\* the instantiation benchmark: 100 runtimes and contexts of its own, each
\* created and freed; then return 0
Benchmark ==
    /\ pc = "benchmark"
    /\ trace' = Append(trace, Call0("benchmark"))
    /\ Exit(0)
    /\ UNCHANGED <<rt, ctx, script_args, failed, i>>
    /\ UNCHANGED <<argv, allocVars, scanVars>>

Driver ==
    \/ NewRuntime \/ NewContext \/ Hooks \/ AddHelpers \/ LoadStd
    \/ Include \/ IncludeEnd \/ MainExpr \/ MainInteractive \/ MainFile
    \/ Interactive \/ Repl \/ Loop \/ DumpMemory \/ FreeHandlers \/ FreeContext
    \/ FreeRuntime \/ Benchmark

(***************************************************************************)
(* The command lines of the model.                                         *)
(***************************************************************************)
\* argv of at most this many tokens after argv[0], over every token
MaxArgsWide == 2
\* argv of at most this many tokens after argv[0], over PassTokens and over
\* ModeTokens
MaxArgsCore == 4

Prog == <<"q", "j", "s">>

\* file names, sizes and other words that are no options
Words == {<<"f">>, <<"m">>, <<"g", ".", "m", "j", "s">>, <<"1", "K">>, <<"2", "x">>, << >>}

ShortOptions ==
    {<<"-", "h">>, <<"-", "e">>, <<"-", "e", "1">>, <<"-", "I">>, <<"-", "i">>, <<"-", "m">>, <<"-", "d">>, <<"-", "T">>, <<"-", "q">>, <<"-", "s">>, <<"-", "x">>}

LongOptions ==
    {<<"-", "-", "e", "v", "a", "l">>, <<"-", "-", "i", "n", "c", "l", "u", "d", "e">>, <<"-", "-", "s", "c", "r", "i", "p", "t">>, <<"-", "-", "s", "t", "d">>,
     <<"-", "-", "n", "o", "-", "u", "n", "h", "a", "n", "d", "l", "e", "d", "-", "r", "e", "j", "e", "c", "t", "i", "o", "n">>, <<"-", "-", "m", "e", "m", "o", "r", "y", "-", "l", "i", "m", "i", "t">>, <<"-", "-", "s", "t", "a", "c", "k", "-", "s", "i", "z", "e">>,
     <<"-", "-", "s", "t", "r", "i", "p", "-", "s", "o", "u", "r", "c", "e">>, <<"-", "-", "b", "o", "g", "u", "s">>}

\* every token of the model
AllTokens == Words \cup {<<"-">>, <<"-", "-">>} \cup ShortOptions \cup LongOptions

\* the tokens that are combined with each other in every order
Tokens ==
    AllTokens \ {<<"2", "x">>, << >>, <<"-", "e", "1">>, <<"-", "T">>, <<"-", "s">>,
                 <<"-", "-", "e", "v", "a", "l">>, <<"-", "-", "i", "n", "c", "l", "u", "d", "e">>,
                 <<"-", "-", "s", "t", "a", "c", "k", "-", "s", "i", "z", "e">>,
                 <<"-", "-", "s", "t", "r", "i", "p", "-", "s", "o", "u", "r", "c", "e">>,
                 <<"-", "-", "b", "o", "g", "u", "s">>}

\* every token first on the command line: alone, and with a word after it
TokenLines ==
    { <<t>> \o w : t \in AllTokens,
                   w \in {<< >>, <<<<"f">>>>, <<<<"1", "K">>>>, <<<<"2", "x">>>>,
                          <<<<"f">>, <<"f">>>>, <<<< >>>>} }

\* the tokens that decide where the options end and what the script gets
PassTokens == {<<"f">>, <<"-", "I">>, <<"-", "e">>, <<"-", "-">>, <<"-">>}

\* the tokens that decide the mode a file is evaluated in
ModeTokens == {<<"f">>, <<"g", ".", "m", "j", "s">>, <<"-", "I">>, <<"-", "m">>, <<"-", "-", "s", "c", "r", "i", "p", "t">>}

SeqsUpTo(S, n) == UNION { [1 .. k -> S] : k \in 0 .. n }

\* k times -I f
RECURSIVE Includes(_)
Includes(k) == IF k = 0 THEN << >> ELSE <<<<"-", "I">>, <<"f">>>> \o Includes(k - 1)

\* command lines that fill the include list, and that overflow it
IncludeChains ==
    { Includes(k) \o tail : k \in {IncludeMax, IncludeMax + 1},
                            tail \in {<< >>, <<<<"f">>>>} }

\* command lines that combine more options than the exhaustive ones
Scenarios ==
    { <<<<"-", "-", "s", "t", "d">>, <<"-", "I">>, <<"f">>, <<"-", "I">>, <<"m">>, <<"-", "i">>, <<"g", ".", "m", "j", "s">>, <<"-", "e">>>>,
      <<<<"-", "-", "s", "t", "d">>, <<"-", "I">>, <<"f">>, <<"-", "e">>, <<"1">>, <<"f">>>>,
      <<<<"-", "-", "n", "o", "-", "u", "n", "h", "a", "n", "d", "l", "e", "d", "-", "r", "e", "j", "e", "c", "t", "i", "o", "n">>, <<"-", "i">>, <<"-", "e">>, <<"1">>>>,
      <<<<"-", "m">>, <<"-", "-", "s", "c", "r", "i", "p", "t">>, <<"-", "I">>, <<"m">>, <<"g", ".", "m", "j", "s">>>>,
      <<<<"-", "-", "s", "c", "r", "i", "p", "t">>, <<"-", "m">>, <<"-", "I">>, <<"g", ".", "m", "j", "s">>, <<"f">>>>,
      <<<<"-", "-", "m", "e", "m", "o", "r", "y", "-", "l", "i", "m", "i", "t">>, <<"1", "K">>, <<"-", "-", "s", "t", "a", "c", "k", "-", "s", "i", "z", "e">>, <<"1", "K">>, <<"-", "T">>, <<"-", "e">>, <<"1">>>>,
      <<<<"-", "q">>, <<"-", "d">>, <<"-", "-", "s", "t", "d">>, <<"-", "I">>, <<"f">>, <<"f">>>>,
      <<<<"-", "-", "m", "o", "d", "u", "l", "e">>, <<"-", "-", "i", "n", "t", "e", "r", "a", "c", "t", "i", "v", "e">>, <<"-", "-", "d", "u", "m", "p">>, <<"-", "-", "t", "r", "a", "c", "e">>, <<"m">>>>,
      <<<<"-", "-", "q", "u", "i", "t">>, <<"-", "-", "d", "u", "m", "p">>>>,
      <<<<"-", "q", "d">>>>,
      <<<<"-", "m", "I", "e">>, <<"m">>, <<"1">>, <<"f">>>>,
      <<<<"-", "?">>>>,
      <<<<"-", "-", "h", "e", "l", "p">>>>,
      <<<<"-", "-">>, <<"-", "e">>>> }

\* short options without argument, alone and packed
FlagTokens == {<<"-", "q">>, <<"-", "d">>, <<"-", "i">>, <<"-", "q", "d">>, <<"-", "d", "q", "i">>}

\* packed short options with -e and -I among the letters
PackTokens ==
    {<<"-", "i", "m">>, <<"-", "s", "T">>, <<"-", "I", "d">>, <<"-", "d", "I">>, <<"-", "I", "I", "q">>,
     <<"-", "e", "q">>, <<"-", "q", "e">>, <<"-", "d", "e", "1">>, <<"-", "I", "e">>, <<"-", "e", "I">>,
     <<"-", "m", "I", "e">>, <<"-", "I", "i", "e", "d", "q">>}

\* a packed token, then words
PackLines ==
    { <<t>> \o w : t \in PackTokens, w \in SeqsUpTo({<<"f">>, <<"1">>}, MaxArgsWide) }

\* the command lines on which the scanner is followed to its end: all of
\* the model but the long runs of mode and flag tokens
ScanCommandLines ==
    { <<Prog>> \o a : a \in SeqsUpTo(Tokens, MaxArgsWide)
                          \cup SeqsUpTo(PassTokens, MaxArgsCore)
                          \cup PackLines \cup TokenLines
                          \cup IncludeChains \cup Scenarios }

CommandLines ==
    ScanCommandLines
        \cup { <<Prog>> \o a : a \in SeqsUpTo(ModeTokens, MaxArgsCore)
                                    \cup SeqsUpTo(FlagTokens, MaxArgsCore) }

(***************************************************************************)
(* The size texts of the model: the decimal text of a value below 2^32,    *)
(* then what may follow a number.                                          *)
(***************************************************************************)
\* the limbs the values are built from: all bits clear, one bit, all set
EdgeLimbs == {0, 1, 512, 1023}

\* values of [0, 2^32) as limbs, least significant first: 0, 1, 2^10, 2^31,
\* 2^32 - 1 and others with carries across every limb
Values32 ==
    { <<a, b, c, d>> : a \in EdgeLimbs, b \in EdgeLimbs, c \in EdgeLimbs,
                       d \in {0, 1, 3} }

\* the limbs 1 .. j of w, with rem carried in from above, divided by 10:
\* the quotient and the remainder
RECURSIVE DivFrom(_, _, _)
DivFrom(w, j, rem) ==
    IF j = 0 THEN [q |-> << >>, r |-> rem]
    ELSE LET cur == rem * LimbBase + w[j]
             low == DivFrom(w, j - 1, cur % 10)
         IN  [q |-> Append(low.q, cur \div 10), r |-> low.r]

\* w \div 10 and w % 10
Div10(w) == DivFrom(w, Len(w), 0)

DigitChar(k) == <<"0", "1", "2", "3", "4", "5", "6", "7", "8", "9">>[k + 1]

\* the decimal text of w, as printf("%u") writes it
RECURSIVE Decimal(_)
Decimal(w) ==
    LET d == Div10(w) IN
    (IF \A j \in 1 .. Len(w) : d.q[j] = 0 THEN << >> ELSE Decimal(d.q))
        \o <<DigitChar(d.r)>>

DecimalOf == [n \in Values32 |-> Decimal(n)]

\* what follows the number: nothing, a suffix, a suffix and more, others
SizeTails ==
    {<< >>, <<"K">>, <<"k">>, <<"M">>, <<"G">>, <<"m">>, <<"g">>, <<"B">>,
     <<"K", "B">>, <<"k", "b">>, <<"M", "B">>, <<"G", "i", "B">>, <<"K", "K">>,
     <<" ">>, <<".", "5">>, <<".", "5", "M">>, <<".">>, <<".", "G">>}

SizeTexts ==
    { DecimalOf[n] \o t : n \in Values32, t \in SizeTails }
        \cup { t \in SizeTails : t = << >> \/ Head(t) # "." }
        \cup { <<".", "K">>, <<".", "5", "K">> }

SizeOptions ==
    {<<"-", "-", "m", "e", "m", "o", "r", "y", "-", "l", "i", "m", "i", "t">>,
     <<"-", "-", "s", "t", "a", "c", "k", "-", "s", "i", "z", "e">>}

\* qjs --memory-limit TEXT, qjs --stack-size TEXT, and the two without TEXT
SizeCommandLines ==
    { <<Prog, o>> \o a : o \in SizeOptions,
                         a \in {<< >>} \cup { <<t>> : t \in SizeTexts } }

(***************************************************************************)
(* The specifications.                                                     *)
(***************************************************************************)
\* main before its first statement runs, on the command line a
MainStart(a) ==
    /\ argv = a
    /\ optind = 1
    /\ arg = NoPtr
    /\ longopt = << >>
    /\ cfg = CfgInit
    /\ role = [n \in 0 .. Len(a) - 1 |-> "unread"]
    /\ i = 0
    /\ rt = NoRuntime
    /\ ctx = NoContext
    /\ script_args = NoScriptArgs
    /\ trace = << >>
    /\ failed = FALSE
    /\ exit_code = -1

Init ==
    /\ AllocStart
    /\ malloc_limit = SIZE_MAX
    /\ \E a \in CommandLines : MainStart(a)
    /\ pc = "scan"

Next == (Scanner \/ Driver)

Spec == Init /\ [][Next]_vars

\* the allocator under a runtime, main left aside
AllocInit ==
    /\ AllocStart
    /\ malloc_limit \in Limits
    /\ MainStart(<<Prog>>)
    /\ pc = "idle"

AllocNext ==
    /\ (js_trace_malloc \/ js_trace_free \/ js_trace_realloc)
    /\ UNCHANGED mainVars

SpecAlloc == AllocInit /\ [][AllocNext]_vars

\* main as the process runs it, a step being taken whenever there is one
LiveInit ==
    /\ AllocStart
    /\ malloc_limit = SIZE_MAX
    /\ \E a \in ScanCommandLines : MainStart(a)
    /\ pc = "scan"

SpecLive == LiveInit /\ [][Next]_vars /\ WF_vars(Next)

\* main on a command line that is one size option: the scanner up to and
\* including get_suffixed_size
SizeInit ==
    /\ AllocStart
    /\ malloc_limit = SIZE_MAX
    /\ \E a \in SizeCommandLines : MainStart(a)
    /\ pc = "scan"

SizeNext == (ScanOption \/ OptMemoryLimit \/ OptStackSize)

SpecSize == SizeInit /\ [][SizeNext]_vars

(***************************************************************************)
(* The command line as the option table reads it: a second, declarative    *)
(* reading of argv, against which the scanner's result is compared.        *)
(***************************************************************************)
\* long options that take the next token as their argument
LongWithArg == {<<"e", "v", "a", "l">>, <<"i", "n", "c", "l", "u", "d", "e">>, <<"m", "e", "m", "o", "r", "y", "-", "l", "i", "m", "i", "t">>, <<"s", "t", "a", "c", "k", "-", "s", "i", "z", "e">>}

LongWithoutArg ==
    {<<"i", "n", "t", "e", "r", "a", "c", "t", "i", "v", "e">>, <<"m", "o", "d", "u", "l", "e">>, <<"s", "c", "r", "i", "p", "t">>, <<"d", "u", "m", "p">>, <<"t", "r", "a", "c", "e">>, <<"s", "t", "d">>,
     <<"n", "o", "-", "u", "n", "h", "a", "n", "d", "l", "e", "d", "-", "r", "e", "j", "e", "c", "t", "i", "o", "n">>, <<"q", "u", "i", "t">>, <<"s", "t", "r", "i", "p", "-", "s", "o", "u", "r", "c", "e">>}

\* short options that take no argument
ShortWithoutArg == {"i", "m", "d", "T", "q", "s"}

\* the reading so far: the next unread token, the include arguments in
\* order, the mode the last of -m / --module / --script asked for, and
\* whether every option so far was a known one
Reading(next, includes, mode, known) ==
    [next |-> next, includes |-> includes, mode |-> mode, known |-> known]

\* the letters of one packed short-option token, left to right
RECURSIVE ReadShort(_, _)
ReadShort(letters, r) ==
    IF letters = << >> THEN r
    ELSE LET c == Head(letters) IN
         IF c = "e"
         THEN IF Tail(letters) # << >> THEN r
              ELSE [r EXCEPT !.next = @ + 1]
         ELSE IF c = "I"
         THEN ReadShort(Tail(letters),
                        [r EXCEPT !.next = @ + 1,
                                  !.includes = Append(@, r.next)])
         ELSE IF c = "m"
         THEN ReadShort(Tail(letters), [r EXCEPT !.mode = "module"])
         ELSE IF c \in ShortWithoutArg
         THEN ReadShort(Tail(letters), r)
         ELSE [r EXCEPT !.known = FALSE]

ReadLong(name, r) ==
    IF name = <<"i", "n", "c", "l", "u", "d", "e">>
    THEN [r EXCEPT !.next = @ + 1, !.includes = Append(@, r.next)]
    ELSE IF name \in LongWithArg THEN [r EXCEPT !.next = @ + 1]
    ELSE IF name = <<"m", "o", "d", "u", "l", "e">> THEN [r EXCEPT !.mode = "module"]
    ELSE IF name = <<"s", "c", "r", "i", "p", "t">> THEN [r EXCEPT !.mode = "script"]
    ELSE IF name \in LongWithoutArg THEN r
    ELSE [r EXCEPT !.known = FALSE]

\* the tokens from r.next on, up to the end of the options
RECURSIVE ReadFrom(_)
ReadFrom(r) ==
    IF r.next >= Argc \/ ~r.known THEN r
    ELSE LET tok == Argv(r.next)
             nxt == [r EXCEPT !.next = @ + 1]
         IN  IF tok = << >> \/ Head(tok) # "-" \/ tok = <<"-">> THEN r
             ELSE IF tok = <<"-", "-">> THEN nxt
             ELSE IF tok[2] = "-"
             THEN ReadFrom(ReadLong(SubSeq(tok, 3, Len(tok)), nxt))
             ELSE ReadFrom(ReadShort(Tail(tok), nxt))

CommandLine == ReadFrom(Reading(1, << >>, "autodetect", TRUE))

\* the command line has no invocation error
ValidCommandLine ==
    /\ CommandLine.known
    /\ CommandLine.next <= Argc
    /\ Len(CommandLine.includes) <= 32

(***************************************************************************)
(* What happened, read off the state.                                      *)
(***************************************************************************)
Exited == pc = "exited"

\* the process ended inside the option scanner
ScanFatal == Exited /\ arg # NoPtr

\* the option letter or long name the scanner was at when it gave up
FatalOption ==
    IF longopt # << >> THEN longopt ELSE <<Argv(arg.tok)[arg.off]>>

\* the positions in the trace of the calls named op
Calls(op) == { k \in 1 .. Len(trace) : trace[k].op = op }

IsEval(e) == e.op \in {"eval_buf", "eval_file"}

\* an input was submitted: an evaluation, a file load, or the REPL blob
IsInput(e) ==
    e.op \in {"eval_buf", "eval_file", "js_load_file", "js_std_eval_binary"}

\* the inputs submitted so far, in order, each by what it is
InputKey(e) ==
    IF e.op = "js_std_eval_binary" THEN <<"repl">>
    ELSE IF e.name = "file" THEN <<"file", e.src.tok>>
    ELSE <<e.name>>

Inputs == [k \in 1 .. Len(SelectSeq(trace, IsInput)) |->
              InputKey(SelectSeq(trace, IsInput)[k])]

IsPrefix(s, u) == Len(s) <= Len(u) /\ s = SubSeq(u, 1, Len(s))

(***************************************************************************)
(* The claims.                                                             *)
(***************************************************************************)
\* C1: whenever script arguments are handed to js_std_add_helpers they are
\* exactly the tokens of argv from the end of the options on (the first
\* token not starting with '-', a bare '-', or the token after '--'), the
\* cursor stands there, every token before it was consumed as an option, an
\* option's argument or the '--', and none from there on was read.
ArgvPassthrough ==
    script_args.set =>
        /\ optind = CommandLine.next
        /\ script_args.argc = Argc - CommandLine.next
        /\ script_args.argv = SubSeq(argv, CommandLine.next + 1, Argc)
        /\ \A n \in 1 .. Argc - 1 :
              IF n < CommandLine.next
              THEN /\ role[n] \in {"option", "argument", "end"}
                   /\ role[n] = "end" =>
                         Argv(n) = <<"-", "-">> /\ n = CommandLine.next - 1
              ELSE role[n] = "unread"

\* C1 witness: `qjs -- -e ...`: the -e after -- reached the script
ArgvPassthroughWitness ==
    /\ script_args.set
    /\ optind >= 2 /\ role[optind - 1] = "end"
    /\ script_args.argc >= 1 /\ script_args.argv[1] = <<"-", "e">>
    /\ cfg.expr = NoPtr

\* C2: after a successful js_trace_malloc or js_trace_realloc, malloc_size
\* is not above malloc_limit.
CapEnforcement ==
    (last.op \in {"malloc", "realloc"} /\ last.ret # NULL)
        => malloc_size <= malloc_limit

\* C3: malloc_count is the number of outstanding blocks and malloc_size the
\* sum of usable size + MALLOC_OVERHEAD over them, after every call.
AllocatorConservation ==
    /\ malloc_count = Cardinality(DOMAIN heap)
    /\ malloc_size = HeapBytes(heap)

\* C3 witness: a block was resized beside another live block
AllocatorConservationWitness ==
    /\ last.op = "realloc" /\ last.ptr # NULL /\ last.ret = last.ptr
    /\ heap[last.ret] > last.size
    /\ Cardinality(DOMAIN heap) = 2

\* the request of call c is over the limit in the state before it
OverLimit(c) ==
    /\ c.size # 0
    /\ IF c.op = "malloc" \/ (c.op = "realloc" /\ c.ptr = NULL)
       THEN SizeAdd(malloc_size, c.size) > malloc_limit
       ELSE /\ c.op = "realloc"
            /\ SizeSub(SizeAdd(malloc_size, c.size), heap[c.ptr])
                   > malloc_limit

\* C4: a request over the limit is refused, and a refused js_trace_malloc or
\* js_trace_realloc returns NULL without calling the platform allocator and
\* leaves malloc_size, malloc_count and every live block as they were.
RefusedUnchanged ==
    [][ /\ OverLimit(last') => last'.refused
        /\ last'.refused =>
              /\ last'.ret = NULL
              /\ ~last'.libc
              /\ malloc_size' = malloc_size
              /\ malloc_count' = malloc_count
              /\ heap' = heap ]_vars

\* C4 witness: a realloc of a live block was refused
RefusedUnchangedWitness ==
    /\ last.refused /\ last.op = "realloc"
    /\ last.ptr \in DOMAIN heap

\* the three teardown calls were made once each, in this order
TornDownInOrder ==
    /\ ctx.frees = 1 /\ rt.frees = 1
    /\ \E h \in Calls("js_std_free_handlers") :
       \E c \in Calls("JS_FreeContext") :
       \E r \in Calls("JS_FreeRuntime") :
          /\ h < c /\ c < r
          /\ Calls("js_std_free_handlers") = {h}
          /\ Calls("JS_FreeContext") = {c}
          /\ Calls("JS_FreeRuntime") = {r}

\* C5 as claimed: every exit after the runtime and the context were created
\* has made the three teardown calls once each, in order.
TeardownOnEveryExit ==
    (Exited /\ ctx.state # "none") => TornDownInOrder

\* the process ended in eval_file's exit(1): the file could not be loaded
LoadFailed == Calls("js_load_file") # {}

\* C5 amended: when main returns after the runtime and the context were
\* created, the handlers were released, then the context and then the
\* runtime freed, once each; when eval_file cannot load a file the process
\* exits 1 at once and neither destructor was called; no destructor is ever
\* called twice.
TeardownOnReturn ==
    /\ ctx.frees <= 1 /\ rt.frees <= 1
    /\ (Exited /\ ctx.state # "none") =>
          IF LoadFailed
          THEN ctx.frees = 0 /\ rt.frees = 0 /\ exit_code = 1
          ELSE TornDownInOrder

\* C5 witness: main returned 1 after an evaluation failed, torn down
TeardownOnReturnWitness ==
    Exited /\ failed /\ exit_code = 1 /\ TornDownInOrder

\* C6: once an evaluation has failed, only the teardown calls follow, and
\* the exit status is not 0.
EvalErrorsShortCircuit ==
    \A k \in 1 .. Len(trace) :
       (IsEval(trace[k]) /\ trace[k].ret # 0) =>
          /\ \A j \in k + 1 .. Len(trace) :
                trace[j].op \in {"js_std_free_handlers", "JS_FreeContext",
                                 "JS_FreeRuntime"}
          /\ Exited => exit_code # 0

\* the inputs of the run in the order the command line gives them: the
\* std/os module, the include files, the main input, the REPL
InputsInOrder ==
    (IF cfg.load_std # 0 THEN << <<"<input>">> >> ELSE << >>)
    \o [k \in 1 .. Len(CommandLine.includes) |->
           <<"file", CommandLine.includes[k]>>]
    \o (IF cfg.expr # NoPtr THEN << <<"<cmdline>">> >>
        ELSE IF CommandLine.next < Argc
        THEN << <<"file", CommandLine.next>> >>
        ELSE << >>)
    \o (IF cfg.interactive # 0 THEN << <<"repl">> >> ELSE << >>)

\* C7: the inputs are submitted in the order std/os module, include files
\* as given on the command line, main input, REPL; and all of them have
\* been submitted when the job loop starts.
InputOrdering ==
    /\ IsPrefix(Inputs, InputsInOrder)
    /\ Calls("js_std_loop") # {} => Inputs = InputsInOrder

\* C7 witness: std/os module, two includes, a script file and the REPL
InputOrderingWitness ==
    /\ Calls("js_std_loop") # {}
    /\ Len(Inputs) = 5
    /\ Inputs[1] = <<"<input>">> /\ Inputs[5] = <<"repl">>
    /\ Inputs[2][2] < Inputs[3][2] /\ Inputs[3][2] < Inputs[4][2]

\* C8: exit status 0 exactly when nothing failed, 2 when the runtime or the
\* context cannot be allocated or the expression of -e is missing, 1 for
\* every other failure (option error, unreadable file, failed evaluation).
ExitCodes ==
    Exited =>
       LET allocFailed ==
               ~ScanFatal /\ (rt.state = "none" \/ ctx.state = "none")
           missingExpr ==
               ScanFatal /\ FatalOption \in {<<"e">>, <<"e", "v", "a", "l">>}
           otherFailure ==
               \/ ScanFatal
               \/ LoadFailed
               \/ \E k \in 1 .. Len(trace) : trace[k].ret # 0
       IN  exit_code = IF allocFailed \/ missingExpr THEN 2
                       ELSE IF otherFailure THEN 1
                       ELSE 0

\* C9: the include list never holds more than 32 entries; a process that
\* ends inside the option scanner has created no runtime and no context and
\* evaluated nothing, with status 2 for a missing -e / --eval expression and
\* 1 otherwise; and a runtime is only ever created for a command line with
\* no unknown option, no missing argument and at most 32 includes.
InvocationErrors ==
    /\ cfg.include_count <= 32
    /\ Len(cfg.include_list) = cfg.include_count
    /\ ScanFatal =>
          /\ rt.state = "none" /\ ctx.state = "none"
          /\ trace = << >> /\ ~script_args.set
          /\ exit_code = IF FatalOption \in {<<"e">>, <<"e", "v", "a", "l">>} THEN 2 ELSE 1
          /\ (exit_code = 2 => optind >= Argc)
    /\ (pc \notin {"scan", "option"} /\ ~ScanFatal) => ValidCommandLine

\* C9 witness: the 33rd -I, with its file name present, ended the process
InvocationErrorsWitness ==
    /\ ScanFatal /\ exit_code = 1
    /\ FatalOption = <<"I">>
    /\ cfg.include_count = 32 /\ optind < Argc

\* the mode the file of eval_file event e is to be evaluated in
ModeFor(e) ==
    IF CommandLine.mode = "module" THEN "JS_EVAL_TYPE_MODULE"
    ELSE IF CommandLine.mode = "script" THEN "JS_EVAL_TYPE_GLOBAL"
    ELSE IF \/ has_suffix(Argv(e.src.tok), <<".", "m", "j", "s">>)
            \/ Argv(e.src.tok) \in ModuleSources
    THEN "JS_EVAL_TYPE_MODULE"
    ELSE "JS_EVAL_TYPE_GLOBAL"

\* C10 as claimed: a file with suffix .mjs is always evaluated as a module.
MjsAlwaysModule ==
    \A k \in Calls("eval_file") :
       has_suffix(Argv(trace[k].src.tok), <<".", "m", "j", "s">>)
          => trace[k].flags = "JS_EVAL_TYPE_MODULE"

\* C10 amended: every file eval_file evaluates is evaluated as a module when
\* the last of -m / --module / --script on the command line is -m or
\* --module, as a script when it is --script, whatever its suffix or text;
\* with neither given, as a module when its name ends in .mjs or the
\* classifier takes its text for a module, and as a script otherwise.
ModeAutodetection ==
    \A k \in Calls("eval_file") : trace[k].flags = ModeFor(trace[k])

\* C10 witness: --script then -m, and -m then --script, on .mjs files
ModeAutodetectionWitness ==
    \E k \in Calls("eval_file") :
       /\ has_suffix(Argv(trace[k].src.tok), <<".", "m", "j", "s">>)
       /\ trace[k].flags = "JS_EVAL_TYPE_GLOBAL"
       /\ cfg.include_count >= 1

(***************************************************************************)
(* get_suffixed_size (SpecSize).                                           *)
(***************************************************************************)
\* the size option has taken its text through get_suffixed_size
SizeTaken == Argc = 3 /\ role[2] = "argument"

\* get_suffixed_size returned
SizeReturned == SizeTaken /\ ~Exited

\* what get_suffixed_size returned, where main stored it
SizeStored ==
    IF Argv(1) = <<"-", "-", "s", "t", "a", "c", "k", "-", "s", "i", "z", "e">>
    THEN cfg.stack_size ELSE cfg.memory_limit

\* n * 2^(LimbBits * k), exact, for n < 2^32 and k <= 3
Shifted(n, k) ==
    [j \in 1 .. NLimbs |->
        IF j > k /\ j - k <= Len(n) THEN n[j - k] ELSE 0]

\* the suffixes of the round trip and the limbs each shifts by
RoundTripSuffixes ==
    {[s |-> << >>, k |-> 0], [s |-> <<"K">>, k |-> 1],
     [s |-> <<"M">>, k |-> 2], [s |-> <<"G">>, k |-> 3]}

\* C11: for every n in [0, 2^32) and every suffix s of "", K, M, G,
\* get_suffixed_size on the decimal text of n followed by s is not fatal
\* and returns n shifted left by 0, 10, 20 or 30 bits, no bit lost.
SizeRoundTrip ==
    \A n \in Values32 : \A x \in RoundTripSuffixes :
       (SizeTaken /\ Argv(2) = DecimalOf[n] \o x.s)
          => /\ ~Exited
             /\ SizeStored = Shifted(n, x.k)

\* C11 witness: 4294967295G was parsed to (2^32 - 1) * 2^30
SizeRoundTripWitness ==
    /\ SizeReturned
    /\ Argv(2) = <<"4", "2", "9", "4", "9", "6", "7", "2", "9", "5", "G">>
    /\ SizeStored = <<0, 0, 0, 1023, 1023, 1023, 3>>

\* the digits at the head of str dropped
RECURSIVE DropDigits(_)
DropDigits(str) ==
    IF str # << >> /\ Head(str) \in Digits THEN DropDigits(Tail(str)) ELSE str

\* the text after the leading number  digits [ "." digits ]  of str; a "."
\* with no digit on either side is no number
AfterNumber(str) ==
    LET a == DropDigits(str) IN
    IF a # << >> /\ Head(a) = "."
          /\ (a # str \/ DropDigits(Tail(a)) # Tail(a))
    THEN DropDigits(Tail(a))
    ELSE a

\* what may follow the number
Suffixes == {<< >>, <<"K">>, <<"k">>, <<"M">>, <<"G">>}

\* C13 as claimed: get_suffixed_size ends the process with exit code 1 for
\* every text whose part after the leading number is neither empty nor
\* exactly one of K, k, M, G.
TrailingRejected ==
    (SizeTaken /\ AfterNumber(Argv(2)) \notin Suffixes)
        => (Exited /\ exit_code = 1)

(***************************************************************************)
(* The empty run (Spec).                                                   *)
(***************************************************************************)
\* the option scanner is done and main went on to the runtime
Scanned == pc \notin {"scan", "option"} /\ ~ScanFatal

\* the calls of the trace that run or prepare user code
IsUserCode(e) ==
    e.op \in {"js_std_add_helpers", "eval_buf", "eval_file", "js_load_file",
              "js_std_eval_binary", "js_std_loop"}

\* main returned 0
Returned0 == Exited /\ exit_code = 0

\* C12: with empty_run set (-q, --quit) no user code is run whatever else
\* the command line holds: the script arguments are not published, neither
\* the std/os module nor an include file, the expression or the script file
\* is evaluated, the REPL is not started and the job queue is not drained;
\* the runtime and the context are still created and torn down, and the
\* instantiation benchmark runs, after the teardown, exactly when
\* dump_memory is set as well.
EmptyRun ==
    /\ (Scanned /\ cfg.empty_run # 0) =>
          /\ ~script_args.set
          /\ \A k \in 1 .. Len(trace) : ~IsUserCode(trace[k])
          /\ exit_code \in {-1, 0, 2}
          /\ (exit_code = 2 => ctx.state = "none")
          /\ Returned0 =>
                /\ rt.state = "freed" /\ rt.frees = 1
                /\ ctx.state = "freed" /\ ctx.frees = 1
                /\ (Calls("benchmark") # {} <=> cfg.dump_memory # 0)
    /\ \A k \in Calls("benchmark") :
          /\ cfg.empty_run # 0 /\ cfg.dump_memory # 0
          /\ \E j \in Calls("JS_FreeRuntime") : j < k

\* C12 witness: -q -d --std -I f f ran to its end: nothing was evaluated,
\* the memory was dumped and the benchmark ran
EmptyRunWitness ==
    /\ Returned0
    /\ cfg.empty_run # 0 /\ cfg.dump_memory # 0 /\ cfg.load_std # 0
    /\ cfg.include_count = 1 /\ optind < Argc
    /\ Calls("benchmark") # {}
    /\ Calls("JS_DumpMemoryUsage") # {}

(***************************************************************************)
(* Packed short options (Spec).                                            *)
(***************************************************************************)
\* what one short option without argument does to the option variables
FlagLetter(l, c) ==
    IF l = "i" THEN [c EXCEPT !.interactive = @ + 1]
    ELSE IF l = "m" THEN [c EXCEPT !.module = 1]
    ELSE IF l = "d" THEN [c EXCEPT !.dump_memory = @ + 1]
    ELSE IF l = "T" THEN [c EXCEPT !.trace_memory = @ + 1]
    ELSE IF l = "q" THEN [c EXCEPT !.empty_run = @ + 1]
    ELSE [c EXCEPT !.strip_flags = "JS_STRIP_DEBUG"]

\* the letters of the tokens, each as a token -x of its own
RECURSIVE Separate(_)
Separate(tokens) ==
    IF tokens = << >> THEN << >>
    ELSE [k \in 1 .. Len(Head(tokens)) - 1 |-> <<"-", Head(tokens)[k + 1]>>]
            \o Separate(Tail(tokens))

\* the option variables after the one-letter tokens -x -y -z ..
RECURSIVE FlagsOf(_, _)
FlagsOf(tokens, c) ==
    IF tokens = << >> THEN c
    ELSE FlagsOf(Tail(tokens), FlagLetter(Head(tokens)[2], c))

\* a token of short options none of which takes an argument
IsFlagToken(tok) ==
    /\ Len(tok) >= 2 /\ tok[1] = "-"
    /\ \A k \in 2 .. Len(tok) : tok[k] \in ShortWithoutArg

\* the command line is flag tokens up to where the options end
OnlyFlagTokens ==
    /\ \A n \in 1 .. CommandLine.next - 1 : IsFlagToken(Argv(n))
    /\ (CommandLine.next < Argc =>
           (Argv(CommandLine.next) = << >> \/ Head(Argv(CommandLine.next)) # "-"
               \/ Argv(CommandLine.next) = <<"-">>))

\* token n read from its letter k on (tok[k]), the option variables being c
\* and the next unread token being next: flags are applied, -I takes the
\* next token and the letters go on, -e takes the rest of the token if
\* there is one and the next token if not, and ends the token
RECURSIVE PackRead(_, _, _, _)
PackRead(n, k, c, next) ==
    IF k > Len(Argv(n)) THEN [cfg |-> c, next |-> next]
    ELSE LET l == Argv(n)[k] IN
         IF l \in ShortWithoutArg
         THEN PackRead(n, k + 1, FlagLetter(l, c), next)
         ELSE IF l = "I"
         THEN PackRead(n, k + 1,
                       [c EXCEPT !.include_list = Append(@, next),
                                 !.include_count = @ + 1],
                       next + 1)
         ELSE IF l = "e" /\ k < Len(Argv(n))
         THEN [cfg |-> [c EXCEPT !.expr = Ptr(n, k)], next |-> next]
         ELSE IF l = "e"
         THEN [cfg |-> [c EXCEPT !.expr = Ptr(next, 0)], next |-> next + 1]
         ELSE [cfg |-> c, next |-> next]

\* argv[1] is a token of short options and no option follows what it takes
OnePackedToken ==
    /\ Argc >= 2 /\ Len(Argv(1)) >= 2
    /\ Argv(1)[1] = "-" /\ Argv(1)[2] # "-"
    /\ LET next == PackRead(1, 2, CfgInit, 2).next IN
       next < Argc => (Argv(next) = << >> \/ Head(Argv(next)) # "-")

\* the while loop of the scanner has just ended
ScanDone == pc = "new_runtime"

\* C14: the letters of a token -xyz are processed left to right.  When none
\* takes an argument the option variables end as they do for the separate
\* tokens -x -y -z; -e with letters left in its token takes them as the
\* expression and consumes no further token, and with none left takes the
\* next token; -I takes the next token as its argument and the letters left
\* in its token go on being read as options.
PackedShortOptions ==
    (ScanDone /\ ValidCommandLine) =>
       /\ OnlyFlagTokens =>
             /\ cfg = FlagsOf(Separate(SubSeq(argv, 2, CommandLine.next)), CfgInit)
             /\ optind = CommandLine.next
       /\ OnePackedToken =>
             /\ cfg = PackRead(1, 2, CfgInit, 2).cfg
             /\ optind = PackRead(1, 2, CfgInit, 2).next
             /\ \A n \in 1 .. Argc - 1 :
                   role[n] = (IF n = 1 THEN "option"
                              ELSE IF n < optind THEN "argument"
                              ELSE "unread")

\* C14 witness: -Iiedq f 1 : f is included, -i counted, dq is the expression
\* and 1 is left to the script
PackedShortOptionsWitness ==
    /\ ScanDone /\ ValidCommandLine /\ OnePackedToken
    /\ Argv(1) = <<"-", "I", "i", "e", "d", "q">>
    /\ Str(cfg.expr) = <<"d", "q">>
    /\ cfg.include_list = <<2>> /\ cfg.interactive = 1
    /\ cfg.dump_memory = 0 /\ cfg.empty_run = 0
    /\ optind = 3 /\ Argc = 4

(***************************************************************************)
(* The protocol of eval_buf (Spec).                                        *)
(***************************************************************************)
\* the positions in the steps of event e of the engine call named call
StepsOf(e, call) == { k \in 1 .. Len(e.steps) : e.steps[k].call = call }

\* the value eval_buf tests: what the last evaluating call left in val
FinalVal(e) ==
    LET k == CHOOSE j \in StepsOf(e, "js_std_await") \cup StepsOf(e, "JS_Eval") : TRUE
    IN  e.steps[k].val

\* the protocol of one evaluation in module mode
ModuleProtocol(e) ==
    LET compile == StepsOf(e, "JS_Eval(COMPILE_ONLY)")
        stamp == StepsOf(e, "js_module_set_import_meta(TRUE, TRUE)")
        run == StepsOf(e, "JS_EvalFunction")
        await == StepsOf(e, "js_std_await")
    IN  /\ compile = {1}
        /\ StepsOf(e, "JS_Eval") = {}
        /\ IF e.steps[1].val = "JS_EXCEPTION"
           THEN stamp = {} /\ run = {} /\ await = {2}
           ELSE stamp = {2} /\ run = {3} /\ await = {4}

\* the end of every evaluation: the test of the final value, and its release
EvalEnding(e) ==
    LET dump == StepsOf(e, "js_std_dump_error")
        free == StepsOf(e, "JS_FreeValue")
    IN  /\ Cardinality(StepsOf(e, "js_std_await") \cup StepsOf(e, "JS_Eval")) = 1
        /\ (e.ret = -1 <=> FinalVal(e) = "JS_EXCEPTION")
        /\ e.ret \in {-1, 0}
        /\ (dump # {} <=> e.ret = -1)
        /\ dump \subseteq {Len(e.steps) - 1}
        /\ free = {Len(e.steps)}
        /\ e.steps[Len(e.steps)].val = FinalVal(e)

\* C15: an eval_buf with module flags compiles only, then stamps import.meta
\* (URL and main = true), then executes the module, then awaits the
\* top-level promise; when the compile step fails it neither stamps nor
\* executes; every eval_buf returns -1 exactly when the final value is an
\* exception, after dumping it, and 0 otherwise, and releases the final
\* value exactly once.
ModuleEvalProtocol ==
    \A k \in Calls("eval_buf") \cup Calls("eval_file") :
       /\ trace[k].flags = "JS_EVAL_TYPE_MODULE" => ModuleProtocol(trace[k])
       /\ trace[k].flags # "JS_EVAL_TYPE_MODULE" =>
             StepsOf(trace[k], "JS_Eval") = {1} /\ Len(trace[k].steps) <= 3
       /\ EvalEnding(trace[k])

\* C15 witness: one module whose compile step failed and one that ran and
\* was awaited without exception, in the same run
ModuleEvalProtocolWitness ==
    /\ \E k \in Calls("eval_buf") \cup Calls("eval_file") :
          /\ trace[k].flags = "JS_EVAL_TYPE_MODULE"
          /\ trace[k].steps[1].val = "JS_EXCEPTION"
          /\ trace[k].ret = -1 /\ Len(trace[k].steps) = 4
    /\ \E k \in Calls("eval_buf") \cup Calls("eval_file") :
          /\ trace[k].flags = "JS_EVAL_TYPE_MODULE"
          /\ trace[k].ret = 0 /\ Len(trace[k].steps) = 5

(***************************************************************************)
(* The main input (Spec).                                                  *)
(***************************************************************************)
\* the evaluations of the expression
ExprInputs == { k \in Calls("eval_buf") : trace[k].name = "<cmdline>" }

\* the loads and evaluations of a file that is no include file: the tokens
\* from argv[optind] on
FileInputs ==
    { k \in Calls("eval_file") \cup Calls("js_load_file") :
         trace[k].src.tok >= optind }

\* -i or --interactive was given: a token read as an option that is
\* --interactive, or short options with an i that no e precedes
InteractiveGiven ==
    \E n \in 1 .. Argc - 1 :
       /\ role[n] = "option"
       /\ \/ Argv(n) = <<"-", "-", "i", "n", "t", "e", "r", "a", "c", "t", "i", "v", "e">>
          \/ /\ Argv(n)[2] # "-"
             /\ \E k \in 2 .. Len(Argv(n)) :
                   /\ Argv(n)[k] = "i"
                   /\ \A j \in 2 .. k - 1 : Argv(n)[j] # "e"

\* C16: a non-empty run that reaches the main input takes exactly one of
\* three branches: it evaluates the expression, or evaluates the script file
\* argv[optind], or, with neither an expression nor a remaining argument,
\* forces interactive mode.  With an expression and a file name after it,
\* only the expression is evaluated, as a script even under -m, and the file
\* name is never loaded but is the first script argument.
ExactlyOneMainInput ==
    /\ Cardinality(ExprInputs \cup FileInputs) <= 1
    /\ \A k \in ExprInputs :
          /\ cfg.expr # NoPtr /\ trace[k].src = cfg.expr
          /\ trace[k].flags = "JS_EVAL_TYPE_GLOBAL"
    /\ \A k \in FileInputs :
          /\ cfg.expr = NoPtr /\ cfg.empty_run = 0
          /\ trace[k].src = Ptr(optind, 0) /\ optind < Argc
    /\ pc \in {"interactive", "repl", "loop"} =>
          /\ cfg.empty_run = 0
          /\ IF cfg.expr # NoPtr
             THEN /\ Cardinality(ExprInputs) = 1
                  /\ (cfg.interactive # 0 <=> InteractiveGiven)
             ELSE IF optind < Argc
             THEN /\ Cardinality(FileInputs) = 1
                  /\ (cfg.interactive # 0 <=> InteractiveGiven)
             ELSE /\ ExprInputs \cup FileInputs = {}
                  /\ cfg.interactive = 1
    /\ (cfg.expr # NoPtr /\ optind < Argc /\ script_args.set) =>
          /\ script_args.argc >= 1
          /\ script_args.argv[1] = Argv(optind)

\* C16 witness: -m -e 1 f evaluated 1 as a script and passed f on
ExactlyOneMainInputWitness ==
    /\ pc = "loop"
    /\ cfg.module = 1 /\ cfg.expr # NoPtr /\ optind < Argc
    /\ Cardinality(ExprInputs) = 1 /\ FileInputs = {}
    /\ script_args.argv[1] = Argv(optind)

(***************************************************************************)
(* The promise rejection tracker (Spec).                                   *)
(***************************************************************************)
\* --no-unhandled-rejection was given
NoRejectionGiven ==
    \E n \in 1 .. Argc - 1 :
       /\ role[n] = "option"
       /\ Argv(n) = <<"-", "-", "n", "o", "-", "u", "n", "h", "a", "n", "d", "l", "e", "d", "-", "r", "e", "j", "e", "c", "t", "i", "o", "n">>

\* the REPL blob is about to be executed, or was
ReplStarted == pc = "repl" \/ Calls("js_std_eval_binary") # {}

\* C17: the default promise rejection tracker is installed before any user
\* input is evaluated exactly when --no-unhandled-rejection was not given;
\* it is detached before the REPL blob is executed (interactive by -i or for
\* want of a source), so the REPL never runs with it installed; it stays
\* installed throughout a run that is not interactive.
RejectionTracker ==
    /\ ~rt.loader => (~rt.tracker /\ trace = << >>)
    /\ (rt.loader /\ ~ReplStarted) => (rt.tracker <=> ~NoRejectionGiven)
    /\ ReplStarted => (~rt.tracker /\ cfg.interactive # 0)
    /\ (cfg.interactive = 0 /\ cfg.empty_run = 0 /\ pc \in {"loop", "dump"})
          => ~ReplStarted

\* C17 witness: the REPL of qjs -i -e 1 ran; the tracker, installed for the
\* expression, is detached
RejectionTrackerWitness ==
    /\ Calls("js_std_eval_binary") # {}
    /\ ExprInputs # {} /\ InteractiveGiven /\ ~NoRejectionGiven
    /\ ~rt.tracker

(***************************************************************************)
(* The job queue (Spec).                                                   *)
(***************************************************************************)
\* the calls of the memory dump and of the teardown
AfterLoop ==
    Calls("JS_DumpMemoryUsage") \cup Calls("js_std_free_handlers")
        \cup Calls("JS_FreeContext") \cup Calls("JS_FreeRuntime")

\* a non-empty run, with its runtime and context, has ended
NonEmptyRunEnded == Exited /\ cfg.empty_run = 0 /\ ctx.state # "none"

\* js_std_loop was called once, after every input and before the memory
\* dump and the teardown
DrainedOnceInPlace ==
    \E k \in Calls("js_std_loop") :
       /\ Calls("js_std_loop") = {k}
       /\ \A j \in 1 .. Len(trace) : IsInput(trace[j]) => j < k
       /\ Inputs = InputsInOrder
       /\ \A j \in AfterLoop : k < j

AllocSame ==
    /\ malloc_count' = malloc_count /\ malloc_size' = malloc_size
    /\ heap' = heap

\* the block ptr is released as js_trace_free(s, ptr) releases it
ReleasedAsFree(ptr) ==
    /\ ptr \in DOMAIN heap
    /\ malloc_count' = malloc_count - 1
    /\ malloc_size' = (malloc_size + SizeMod
                        - ((heap[ptr] + MALLOC_OVERHEAD) % SizeMod)) % SizeMod
    /\ DOMAIN heap' = DOMAIN heap \ {ptr}
    /\ \A q \in DOMAIN heap' : heap'[q] = heap[q]

\* the allocator state changes as js_trace_malloc(s, size) may change it
AsMalloc(size, ret, refused) ==
    /\ refused <=> (malloc_size + size) % SizeMod > malloc_limit
    /\ IF ret = NULL THEN AllocSame
       ELSE /\ ~refused
            /\ ret \notin DOMAIN heap
            /\ DOMAIN heap' = DOMAIN heap \cup {ret}
            /\ \A q \in DOMAIN heap : heap'[q] = heap[q]
            /\ heap'[ret] >= size
            /\ malloc_count' = malloc_count + 1
            /\ malloc_size' = (malloc_size + heap'[ret] + MALLOC_OVERHEAD) % SizeMod

\* C19: js_trace_realloc(ptr, 0) on a live block does to the allocator state
\* what js_trace_free(ptr) does (malloc_count one less, malloc_size less the
\* usable size of the block and MALLOC_OVERHEAD, the block released) and
\* returns NULL; js_trace_realloc(NULL, 0) returns NULL and changes nothing;
\* js_trace_realloc(NULL, n), n > 0, behaves as js_trace_malloc(n); and no
\* realloc of size 0 allocates (js_trace_malloc is never entered with 0).
ZeroSizePolicy ==
    [][ /\ (last'.op = "free" /\ last'.ptr # NULL) => ReleasedAsFree(last'.ptr)
        /\ (last'.op = "realloc" /\ last'.size = 0) =>
              /\ last'.ret = NULL /\ ~last'.refused
              /\ DOMAIN heap' \subseteq DOMAIN heap
              /\ IF last'.ptr = NULL THEN AllocSame /\ ~last'.libc
                 ELSE ReleasedAsFree(last'.ptr)
        /\ (last'.op \in {"realloc", "malloc"} /\ last'.ptr = NULL
               /\ last'.size # 0) =>
              AsMalloc(last'.size, last'.ret, last'.refused)
        /\ last'.op = "malloc" => last'.size # 0
      ]_vars

\* C19 witness: js_trace_realloc(ptr, 0) released one of two live blocks
ZeroSizePolicyWitness ==
    /\ last.op = "realloc" /\ last.ptr # NULL /\ last.size = 0
    /\ last.ret = NULL
    /\ last.ptr \notin DOMAIN heap
    /\ malloc_count = 1 /\ Cardinality(DOMAIN heap) = 1

(***************************************************************************)
(* The cursor of the option scanner (SpecLive).                            *)
(***************************************************************************)
\* main is in the option-scanning loop
Scanning == pc \in {"scan", "option"}

\* what is left of the token at hand: the letters or the long name not yet
\* matched, and the return to the while loop
ScanLeft == IF pc = "option" THEN 1 + Len(Str(arg)) + Len(longopt) ELSE 0

\* the cursor and everything the scanner took from argv lie inside argv
CursorInside ==
    /\ 1 <= optind /\ optind <= Argc
    /\ \A n \in 0 .. Argc - 1 : role[n] # "unread" => (1 <= n /\ n < optind)
    /\ cfg.expr # NoPtr => (1 <= cfg.expr.tok /\ cfg.expr.tok < optind)
    /\ \A k \in 1 .. Len(cfg.include_list) :
          1 <= cfg.include_list[k] /\ cfg.include_list[k] < optind
    /\ pc = "option" => (1 <= arg.tok /\ arg.tok < optind
                            /\ arg.off <= Len(Argv(arg.tok)))
    /\ script_args.set =>
          (script_args.argc = Argc - optind /\ script_args.argc >= 0)

\* C20: for every argv with argc >= 1 the option-scanning loop terminates:
\* every step of it moves the cursor on or leaves less of the token at hand,
\* and the scan ends; optind never decreases and
\* 1 <= optind <= argc in every reachable state, so no element of argv at
\* an index >= argc is read as an option or as the argument of an option,
\* and the number of script arguments argc - optind is never negative.
CursorBounds ==
    /\ [][ /\ CursorInside /\ CursorInside'
           /\ optind' >= optind
           /\ (Scanning /\ Scanning') =>
                 \/ optind' > optind
                 \/ optind' = optind /\ ScanLeft' < ScanLeft
         ]_vars
    /\ <>(~Scanning)

\* C20 witness: the scan ended with the cursor at argc, four tokens taken
CursorBoundsWitness ==
    /\ ScanDone /\ optind = Argc /\ Argc = 5
    /\ \A n \in 1 .. 4 : role[n] # "unread"

====
